---- MODULE Spec2Model ----
(***************************************************************************)
(* hexponent: a parser for C11 hexadecimal floating-point literals         *)
(* (FloatLiteral::from_bytes, src/src/lib.rs) and the conversion of the    *)
(* parsed literal to a binary floating-point bit pattern                   *)
(* (FloatLiteral::convert -> FPFormat::from_literal).                      *)
(*                                                                         *)
(* Bytes are the integers 0..255.  A slice of the input is a record        *)
(* [ptr, len]: the address of its first byte relative to the start of the  *)
(* input buffer, and its length.  A slice operation whose range is out of  *)
(* bounds (a panic in Rust) yields a negative len, which from_bytes turns  *)
(* into the outcome Panic.                                                 *)
(***************************************************************************)
EXTENDS Integers, Sequences, FiniteSets, TLC

VARIABLES data, pc, lit, fmt, res

vars == <<data, pc, lit, fmt, res>>

----------------------------------------------------------------------------
(* Bytes the parser distinguishes.                                         *)

PLUS == 43
MINUS == 45
POINT == 46
ZERO == 48
NINE == 57
UPPER_A == 65
UPPER_F == 70
UPPER_P == 80
UPPER_X == 88
LOWER_A == 97
LOWER_F == 102
LOWER_P == 112
LOWER_X == 120

(* Bytes that only ever appear as data: the digit 1, a letter that is no   *)
(* hex digit ('g'), the floating-suffix letter ('l'), a blank, and 0xFF,   *)
(* a byte that occurs in no valid UTF-8 text.                              *)
ONE == ZERO + 1
LOWER_G == LOWER_F + 1
LOWER_L == LOWER_F + 6
SPACE == ZERO - 16
NON_UTF8 == 128 + 127

I32_MAX == 2147483647
I32_MIN == (-I32_MAX) - 1

None == -1

----------------------------------------------------------------------------
(* Slices of the input buffer.                                             *)

\* data.get(i): the byte at index i of the slice, None past its end.
Get(buf, s, i) == IF i >= 0 /\ i < s.len THEN buf[s.ptr + i + 1] ELSE None

\* &data[n..]: panics (len < 0) when n > data.len().
SliceFrom(s, n) == [ptr |-> s.ptr + n, len |-> s.len - n]

\* The bytes of &data[..n]; the caller has checked n <= data.len().
Prefix(buf, s, n) == [i \in 1..n |-> buf[s.ptr + i]]

\* get_cursed_index: the address of sub_slice minus the address of
\* master_slice, saturating at 0.
get_cursed_index(master_slice, sub_slice) ==
    IF sub_slice.ptr >= master_slice.ptr
    THEN sub_slice.ptr - master_slice.ptr
    ELSE 0

----------------------------------------------------------------------------
(* parse_utils: the hexadecimal digit helpers.                             *)

IsHexDigit(b) ==
    \/ b \in ZERO..NINE
    \/ b \in UPPER_A..UPPER_F
    \/ b \in LOWER_A..LOWER_F

\* The number of hexadecimal digits at the start of the slice, from index i.
RECURSIVE HexRunLength(_, _, _)
HexRunLength(buf, s, i) ==
    IF i < s.len /\ IsHexDigit(buf[s.ptr + i + 1])
    THEN HexRunLength(buf, s, i + 1)
    ELSE i

\* consume_hex_digits: split the slice into its leading run of hexadecimal
\* digits and the rest.
consume_hex_digits(buf, s) ==
    LET n == HexRunLength(buf, s, 0)
    IN  [digits |-> Prefix(buf, s, n), rest |-> SliceFrom(s, n)]

\* hex_digit_to_int: the value of an ASCII hexadecimal digit, None for any
\* other byte.
hex_digit_to_int(b) ==
    IF b \in ZERO..NINE THEN b - ZERO
    ELSE IF b \in UPPER_A..UPPER_F THEN (b - UPPER_A) + 10
    ELSE IF b \in LOWER_A..LOWER_F THEN (b - LOWER_A) + 10
    ELSE None

----------------------------------------------------------------------------
(* Results of from_bytes.                                                  *)

NoLit == [outcome |-> "none"]

Panic == [outcome |-> "panic"]

\* ParseErrorKind::at
Err(kind, index) == [outcome |-> "err", kind |-> kind, index |-> index]

Ok(is_positive, digits, decimal_offset, exponent) ==
    [outcome |-> "ok", is_positive |-> is_positive, digits |-> digits,
     decimal_offset |-> decimal_offset, exponent |-> exponent]

----------------------------------------------------------------------------
(* The stages of from_bytes.                                               *)

\* The optional sign byte.
ParseSign(buf, s) ==
    LET b == Get(buf, s, 0)
    IN  IF b = PLUS THEN [is_positive |-> TRUE, data |-> SliceFrom(s, 1)]
        ELSE IF b = MINUS THEN [is_positive |-> FALSE, data |-> SliceFrom(s, 1)]
        ELSE [is_positive |-> TRUE, data |-> s]

\* ParsePrefix, had it tested the first byte alone before slicing off two.
ParsePrefix_FirstByteOnly(buf, s) ==
    IF Get(buf, s, 0) = ZERO
    THEN [ok |-> TRUE, data |-> SliceFrom(s, 2)]
    ELSE [ok |-> FALSE, data |-> s]

\* The mandatory prefix: data.get(0..2) is "0X" or "0x".
ParsePrefix(buf, s) ==
    IF /\ s.len >= 2
       /\ Get(buf, s, 0) = ZERO
       /\ Get(buf, s, 1) \in {UPPER_X, LOWER_X}
    THEN [ok |-> TRUE, data |-> SliceFrom(s, 2)]
    ELSE [ok |-> FALSE, data |-> s]

\* ParseFPart, had it taken the point only when a digit follows it.
ParseFPart_PointNeedsDigit(buf, s) ==
    IF Get(buf, s, 0) = POINT /\ IsHexDigit(Get(buf, s, 1))
    THEN LET r == consume_hex_digits(buf, SliceFrom(s, 1))
         IN  [fpart |-> r.digits, data |-> r.rest]
    ELSE [fpart |-> <<>>, data |-> s]

\* The optional point and the fractional digits after it.
ParseFPart(buf, s) ==
    IF Get(buf, s, 0) = POINT
    THEN LET r == consume_hex_digits(buf, SliceFrom(s, 1))
         IN  [fpart |-> r.digits, data |-> r.rest]
    ELSE [fpart |-> <<>>, data |-> s]

IsDecimalDigit(b) == b \in ZERO..NINE

\* iter().position(not a decimal digit).unwrap_or_else(len): the number of
\* decimal digits at the start of the slice, from index i.
RECURSIVE DecimalRunLength(_, _, _)
DecimalRunLength(buf, s, i) ==
    IF i < s.len /\ IsDecimalDigit(buf[s.ptr + i + 1])
    THEN DecimalRunLength(buf, s, i + 1)
    ELSE i

\* core::str::from_utf8 succeeds.  Every byte below 128 is a one-byte
\* sequence; NON_UTF8 (0xFF) occurs in no valid sequence, and the inputs
\* hold no other byte above 127.
IsUtf8(bytes) == \A i \in 1..Len(bytes) : bytes[i] < 128

\* str::parse::<i32>: an optional sign, then at least one decimal digit,
\* accumulated with checked arithmetic (towards the negative side after a
\* '-').  The comparisons are arranged so that no intermediate value leaves
\* the 32-bit range.
RECURSIVE ParseI32Digits(_, _, _, _)
ParseI32Digits(bytes, i, acc, negative) ==
    IF i > Len(bytes) THEN [ok |-> TRUE, value |-> acc]
    ELSE IF ~IsDecimalDigit(bytes[i]) THEN [ok |-> FALSE, value |-> 0]
    ELSE LET d == bytes[i] - ZERO
         IN  IF negative
             THEN IF /\ acc >= -(I32_MAX \div 10)
                     /\ d - 1 <= (acc * 10) + I32_MAX
                  THEN ParseI32Digits(bytes, i + 1, (acc * 10) - d, negative)
                  ELSE [ok |-> FALSE, value |-> 0]
             ELSE IF /\ acc <= I32_MAX \div 10
                     /\ acc * 10 <= I32_MAX - d
                  THEN ParseI32Digits(bytes, i + 1, (acc * 10) + d, negative)
                  ELSE [ok |-> FALSE, value |-> 0]

ParseI32(bytes) ==
    IF Len(bytes) = 0 THEN [ok |-> FALSE, value |-> 0]
    ELSE IF bytes[1] \in {PLUS, MINUS}
         THEN IF Len(bytes) = 1 THEN [ok |-> FALSE, value |-> 0]
              ELSE ParseI32Digits(bytes, 2, 0, bytes[1] = MINUS)
         ELSE ParseI32Digits(bytes, 1, 0, FALSE)

\* ParseExponent, had it parsed the exponent text before testing that it
\* holds a digit.
ParseExponent_ParsesFirst(buf, original_data, s) ==
    IF Get(buf, s, 0) \in {UPPER_P, LOWER_P}
    THEN LET d == SliceFrom(s, 1)
             sign_offset == IF Get(buf, d, 0) \in {PLUS, MINUS} THEN 1 ELSE 0
             tail == SliceFrom(d, sign_offset)
             exponent_digits_offset == DecimalRunLength(buf, tail, 0)
             n == sign_offset + exponent_digits_offset
             text == Prefix(buf, d, n)
             parsed == ParseI32(text)
         IN  IF tail.len < 0 \/ n > d.len \/ ~IsUtf8(text)
             THEN [status |-> "panic", exponent |-> 0, index |-> 0, data |-> d]
             ELSE IF ~parsed.ok
             THEN [status |-> "ExponentOverflow", exponent |-> 0,
                   index |-> get_cursed_index(original_data, d), data |-> d]
             ELSE IF exponent_digits_offset = 0
             THEN [status |-> "MissingExponent", exponent |-> 0,
                   index |-> get_cursed_index(original_data, d), data |-> d]
             ELSE [status |-> "ok", exponent |-> parsed.value, index |-> 0,
                   data |-> SliceFrom(d, n)]
    ELSE [status |-> "ok", exponent |-> 0, index |-> 0, data |-> s]

\* The optional exponent: a marker, an optional sign and decimal digits.
\* status is "ok", "panic", or the kind of the error raised at index.
ParseExponent(buf, original_data, s) ==
    IF Get(buf, s, 0) \in {UPPER_P, LOWER_P}
    THEN LET d == SliceFrom(s, 1)
             sign_offset == IF Get(buf, d, 0) \in {PLUS, MINUS} THEN 1 ELSE 0
             tail == SliceFrom(d, sign_offset)
             exponent_digits_offset == DecimalRunLength(buf, tail, 0)
             n == sign_offset + exponent_digits_offset
             text == Prefix(buf, d, n)
             parsed == ParseI32(text)
         IN  IF tail.len < 0
             THEN [status |-> "panic", exponent |-> 0, index |-> 0, data |-> d]
             ELSE IF exponent_digits_offset = 0
             THEN [status |-> "MissingExponent", exponent |-> 0,
                   index |-> get_cursed_index(original_data, d), data |-> d]
             ELSE IF n > d.len \/ ~IsUtf8(text)
             THEN [status |-> "panic", exponent |-> 0, index |-> 0, data |-> d]
             ELSE IF ~parsed.ok
             THEN [status |-> "ExponentOverflow", exponent |-> 0,
                   index |-> get_cursed_index(original_data, d), data |-> d]
             ELSE [status |-> "ok", exponent |-> parsed.value, index |-> 0,
                   data |-> SliceFrom(d, n)]
    ELSE [status |-> "ok", exponent |-> 0, index |-> 0, data |-> s]

\* position / rposition of the first / last byte that is not '0'.
NonZeroPositions(raw_digits) == {i \in 1..Len(raw_digits) : raw_digits[i] # ZERO}

Min(S) == CHOOSE x \in S : \A y \in S : x <= y

Max(S) == CHOOSE x \in S : \A y \in S : x >= y

\* Normalize, had it not trimmed the zero digits at the end.
Normalize_KeepsTrailingZeros(ipart, fpart) ==
    LET raw_digits == ipart \o fpart
        nz == NonZeroPositions(raw_digits)
    IN  IF nz = {}
        THEN [panic |-> FALSE, digits |-> <<>>, decimal_offset |-> 0]
        ELSE LET first_digit == Min(nz) - 1
                 kept == SubSeq(raw_digits, first_digit + 1, Len(raw_digits))
                 values == [i \in 1..Len(kept) |-> hex_digit_to_int(kept[i])]
             IN  [panic |-> \E i \in 1..Len(values) : values[i] = None,
                  digits |-> values,
                  decimal_offset |-> Len(ipart) - first_digit]

\* Normalize, had it taken the offset without the leading zeros trimmed.
Normalize_OffsetFromStart(ipart, fpart) ==
    LET raw_digits == ipart \o fpart
        nz == NonZeroPositions(raw_digits)
    IN  IF nz = {}
        THEN [panic |-> FALSE, digits |-> <<>>, decimal_offset |-> 0]
        ELSE LET kept == SubSeq(raw_digits, Min(nz), Max(nz))
                 values == [i \in 1..Len(kept) |-> hex_digit_to_int(kept[i])]
             IN  [panic |-> \E i \in 1..Len(values) : values[i] = None,
                  digits |-> values,
                  decimal_offset |-> Len(ipart)]

\* The normalization of the digits: trim the zero digits at both ends,
\* convert the rest from ASCII to their values, and compute the offset.
\* first_digit and last_digit are 0-based as in the source.
Normalize(ipart, fpart) ==
    LET raw_digits == ipart \o fpart
        nz == NonZeroPositions(raw_digits)
    IN  IF nz = {}
        THEN [panic |-> FALSE, digits |-> <<>>, decimal_offset |-> 0]
        ELSE LET first_digit == Min(nz) - 1
                 last_digit == Max(nz) - 1
                 decimal_offset == Len(ipart) - first_digit
                 kept == SubSeq(raw_digits, first_digit + 1, last_digit + 1)
                 values == [i \in 1..Len(kept) |-> hex_digit_to_int(kept[i])]
             IN  [panic |-> \E i \in 1..Len(values) : values[i] = None,
                  digits |-> values,
                  decimal_offset |-> decimal_offset]

\* FloatLiteral::from_bytes
from_bytes(buf) ==
    LET original_data == [ptr |-> 0, len |-> Len(buf)]
        sg == ParseSign(buf, original_data)
        px == ParsePrefix(buf, sg.data)
        ip == consume_hex_digits(buf, px.data)
        fp == ParseFPart(buf, ip.rest)
        ex == ParseExponent(buf, original_data, fp.data)
        nm == Normalize(ip.digits, fp.fpart)
    IN  IF sg.data.len < 0 THEN Panic
        ELSE IF ~px.ok THEN Err("MissingPrefix", 0)
        ELSE IF px.data.len < 0 \/ ip.rest.len < 0 \/ fp.data.len < 0 THEN Panic
        ELSE IF Len(fp.fpart) = 0 /\ Len(ip.digits) = 0
        THEN Err("MissingDigits", get_cursed_index(original_data, fp.data))
        ELSE IF ex.status = "panic" THEN Panic
        ELSE IF ex.status # "ok" THEN Err(ex.status, ex.index)
        ELSE IF ex.data.len < 0 THEN Panic
        ELSE IF ex.data.len # 0
        THEN Err("MissingEnd", get_cursed_index(original_data, ex.data))
        ELSE IF nm.panic THEN Panic
        ELSE Ok(sg.is_positive, nm.digits, nm.decimal_offset, ex.exponent)

----------------------------------------------------------------------------
(* The format converter: FPFormat::from_literal for a format with E        *)
(* exponent bits and M mantissa bits.  Bit strings are sequences of 0 and  *)
(* 1, most significant bit first, so that the 52 mantissa bits of a double *)
(* need no wide integer.                                                   *)

F32 == [name |-> "f32", E |-> 8, M |-> 23]

F64 == [name |-> "f64", E |-> 11, M |-> 52]

RECURSIVE Pow2(_)
Pow2(n) == IF n = 0 THEN 1 ELSE 2 * Pow2(n - 1)

TotalBits(f) == 1 + f.E + f.M

ExponentBias(f) == Pow2(f.E - 1) - 1

MaxExponent(f) == ExponentBias(f)

MinExponent(f) == 1 - ExponentBias(f)

Zeros(n) == [i \in 1..n |-> 0]

NibbleBits(d) == <<d \div 8, (d \div 4) % 2, (d \div 2) % 2, d % 2>>

RECURSIVE BitsOf(_)
BitsOf(digits) ==
    IF Len(digits) = 0 THEN <<>>
    ELSE NibbleBits(Head(digits)) \o BitsOf(Tail(digits))

\* The number of digits packed: digit index (from 0) is packed while
\* index * 4 does not exceed the mantissa width.
PackedCount(f, digits) ==
    IF Len(digits) <= (f.M \div 4) + 1 THEN Len(digits) ELSE (f.M \div 4) + 1

\* The accumulator after packing: the packed nibbles from the top bit down.
Accumulator(f, digits) ==
    LET packed == BitsOf(SubSeq(digits, 1, PackedCount(f, digits)))
    IN  packed \o Zeros(TotalBits(f) - Len(packed))

RECURSIVE LeadingZeros(_)
LeadingZeros(bits) ==
    IF Len(bits) = 0 \/ Head(bits) = 1 THEN 0 ELSE 1 + LeadingZeros(Tail(bits))

\* bits << n, within the width of bits.
ShiftLeft(bits, n) == SubSeq(bits, n + 1, Len(bits)) \o Zeros(n)

\* The sum of two integers.  TLC's integers are 32 bits wide: a sum outside
\* them is represented by the nearest 32-bit value, which lies on the same
\* side of every format's exponent range.
ExactAdd(a, b) ==
    IF b > 0 /\ a > I32_MAX - b THEN I32_MAX
    ELSE IF b < 0 /\ a < I32_MIN - b THEN I32_MIN
    ELSE a + b

NoRes == [tag |-> "none"]

Float(tag, negative, exponent_field, mantissa) ==
    [tag |-> tag, sign |-> IF negative THEN 1 ELSE 0,
     exponent |-> exponent_field, mantissa |-> mantissa]

FloatZero(f, tag, negative) == Float(tag, negative, 0, Zeros(f.M))

FloatInfinity(f, tag, negative) == Float(tag, negative, Pow2(f.E) - 1, Zeros(f.M))

\* The sum of two 32-bit integers, wrapped to 32 bits.
WrapAdd(a, b) ==
    IF b > 0 /\ a > I32_MAX - b THEN ((a - I32_MAX) + (b - I32_MAX)) - 2
    ELSE IF b < 0 /\ a < I32_MIN - b THEN ((a + I32_MAX) + (b + I32_MAX)) + 2
    ELSE a + b

\* from_literal, had it added the exponents in wrapping 32-bit arithmetic.
from_literal_wrapping(f, literal) ==
    IF Len(literal.digits) = 0
    THEN FloatZero(f, "Precise", ~literal.is_positive)
    ELSE LET acc == Accumulator(f, literal.digits)
             was_truncated == PackedCount(f, literal.digits) < Len(literal.digits)
             leading_zeros == LeadingZeros(acc)
             exponent_offset == (literal.decimal_offset * 4) - (leading_zeros + 1)
             mantissa == SubSeq(ShiftLeft(acc, leading_zeros + 1), 1, f.M)
             final_exponent == WrapAdd(exponent_offset, literal.exponent)
         IN  IF final_exponent < MinExponent(f)
             THEN FloatZero(f, "Imprecise", ~literal.is_positive)
             ELSE IF final_exponent > MaxExponent(f)
             THEN FloatInfinity(f, "Imprecise", ~literal.is_positive)
             ELSE Float(IF was_truncated THEN "Imprecise" ELSE "Precise",
                        ~literal.is_positive,
                        final_exponent + ExponentBias(f),
                        mantissa)

\* FPFormat::from_literal
from_literal(f, literal) ==
    IF Len(literal.digits) = 0
    THEN FloatZero(f, "Precise", ~literal.is_positive)
    ELSE LET acc == Accumulator(f, literal.digits)
             was_truncated == PackedCount(f, literal.digits) < Len(literal.digits)
             leading_zeros == LeadingZeros(acc)
             exponent_offset == (literal.decimal_offset * 4) - (leading_zeros + 1)
             mantissa == SubSeq(ShiftLeft(acc, leading_zeros + 1), 1, f.M)
             final_exponent == ExactAdd(exponent_offset, literal.exponent)
         IN  IF final_exponent < MinExponent(f)
             THEN FloatZero(f, "Imprecise", ~literal.is_positive)
             ELSE IF final_exponent > MaxExponent(f)
             THEN FloatInfinity(f, "Imprecise", ~literal.is_positive)
             ELSE Float(IF was_truncated THEN "Imprecise" ELSE "Precise",
                        ~literal.is_positive,
                        final_exponent + ExponentBias(f),
                        mantissa)

\* FloatLiteral::convert
convert(f, literal) == from_literal(f, literal)

----------------------------------------------------------------------------
(* The inputs: every byte string of at most MaxLen bytes over Alphabet,    *)
(* and literals assembled from a sign, a prefix, digits, an exponent and   *)
(* trailing bytes.                                                         *)

MaxLen == 5

MaxPad == 1

Alphabet == {PLUS, MINUS, ZERO, ONE, LOWER_X, POINT, LOWER_P, NON_UTF8}

ShortInputs == UNION {[1..n -> Alphabet] : n \in 0..MaxLen}

HexChar(d) == IF d < 10 THEN ZERO + d ELSE LOWER_A + (d - 10)

HexCharUpper(d) == IF d < 10 THEN ZERO + d ELSE UPPER_A + (d - 10)

Text(ds) == [i \in 1..Len(ds) |-> HexChar(ds[i])]

Repeat(b, n) == [i \in 1..n |-> b]

\* Digit strings: a leading digit, a run of zeros, and an optional last digit.
Bodies ==
    {<<first>> \o Zeros(mid) \o (IF last = 0 THEN <<>> ELSE <<last>>) :
        first \in {1, 8, 15}, mid \in {0, 4, 5, 6, 8, 12, 13}, last \in {0, 1, 8}}

\* The digits with the point after the first k of them (no point: k = None),
\* a zeros in front and, after a point, b zeros behind.
Mantissa(ds, k, a, b) ==
    IF k = None
    THEN Repeat(ZERO, a) \o Text(ds)
    ELSE Repeat(ZERO, a) \o Text(SubSeq(ds, 1, k)) \o <<POINT>>
         \o Text(SubSeq(ds, k + 1, Len(ds))) \o Repeat(ZERO, b)

Mantissas ==
    {Mantissa(ds, k, a, b) :
        ds \in Bodies, k \in {None, 0, 1}, a \in 0..MaxPad, b \in 0..MaxPad}
    \cup {Mantissa(ds, Len(ds), a, b) :
        ds \in Bodies, a \in 0..MaxPad, b \in 0..MaxPad}

FewMantissas ==
    {<<>>, <<ONE>>, <<ZERO + 3>>, <<ZERO + 8>>, <<ONE, ZERO>>, <<POINT>>,
     <<POINT, ONE>>, <<UPPER_F, POINT, LOWER_F>>, <<ZERO, POINT, ZERO>>}

ExponentDigits ==
    {<<>>, <<0>>, <<4>>, <<4, 0>>, <<1, 2, 3>>, <<1, 2, 4>>, <<1, 2, 6>>,
     <<1, 2, 7>>, <<1, 2, 8>>, <<1, 3, 0>>, <<1, 0, 0, 0>>, <<1, 0, 1, 9>>,
     <<1, 0, 2, 2>>, <<1, 0, 2, 3>>, <<1, 0, 2, 4>>, <<1, 0, 2, 6>>,
     <<2, 1, 4, 7, 4, 8, 3, 6, 4, 7>>, <<2, 1, 4, 7, 4, 8, 3, 6, 4, 8>>,
     <<2, 1, 4, 7, 4, 8, 3, 6, 4, 9>>, <<1, 0, 0, 0, 0, 0, 0, 0, 0, 0, 0>>,
     <<0, 0, 0, 0, 0, 0, 0, 0, 0, 0, 0, 1>>}

Exponents ==
    {<<>>}
    \cup {<<LOWER_P>> \o sg \o Text(ds) :
            sg \in {<<>>, <<MINUS>>}, ds \in ExponentDigits}
    \cup {<<UPPER_P, PLUS>> \o Text(ds) : ds \in {<<>>, <<4>>, <<4, 0>>}}

FewExponents == {<<>>, <<LOWER_P, MINUS, ZERO + 4>>, <<UPPER_P, PLUS, ZERO + 4, ZERO>>}

Signs == {<<>>, <<MINUS>>, <<PLUS>>, <<SPACE>>}

Prefixes == {<<ZERO, LOWER_X>>, <<ZERO, UPPER_X>>}

Trailers == {<<>>, <<LOWER_G>>, <<LOWER_L>>, <<SPACE>>, <<NON_UTF8>>, <<MINUS>>}

LiteralInputs ==
    {sg \o <<ZERO, LOWER_X>> \o m \o e :
        sg \in {<<>>, <<MINUS>>}, m \in Mantissas, e \in FewExponents}
    \cup {sg \o px \o m \o e \o t :
        sg \in Signs, px \in Prefixes, m \in FewMantissas, e \in Exponents,
        t \in Trailers}

\* Every input that stops after a prefix of one of two long literals:
\* "-0X1a.F0p-2147483648" and "+0x00.0eP+10".
LongLiterals ==
    {<<MINUS, ZERO, UPPER_X, ONE, LOWER_A, POINT, UPPER_F, ZERO, LOWER_P, MINUS>>
        \o Text(<<2, 1, 4, 7, 4, 8, 3, 6, 4, 8>>),
     <<PLUS, ZERO, LOWER_X, ZERO, ZERO, POINT, ZERO, LOWER_A + 4, UPPER_P, PLUS,
       ONE, ZERO>>}

PrefixInputs == UNION {{SubSeq(l, 1, n) : n \in 0..Len(l)} : l \in LongLiterals}

Inputs == ShortInputs \cup LiteralInputs \cup PrefixInputs

----------------------------------------------------------------------------
(* The state machine: an input is parsed once, and a parsed literal is     *)
(* converted once, to single or to double precision.                       *)

Init ==
    /\ data \in Inputs
    /\ pc = "input"
    /\ lit = NoLit
    /\ fmt = "none"
    /\ res = NoRes

Parse ==
    /\ pc = "input"
    /\ lit' = from_bytes(data)
    /\ pc' = IF lit'.outcome = "ok" THEN "parsed"
             ELSE IF lit'.outcome = "err" THEN "failed"
             ELSE "panicked"
    /\ UNCHANGED <<data, fmt, res>>

ConvertSingle ==
    /\ pc = "parsed"
    /\ res' = convert(F32, lit)
    /\ fmt' = "f32"
    /\ pc' = "converted"
    /\ UNCHANGED <<data, lit>>

ConvertDouble ==
    /\ pc = "parsed"
    /\ res' = convert(F64, lit)
    /\ fmt' = "f64"
    /\ pc' = "converted"
    /\ UNCHANGED <<data, lit>>

Next == Parse \/ ConvertSingle \/ ConvertDouble

Spec == Init /\ [][Next]_vars

----------------------------------------------------------------------------
(* The grammar of a hexadecimal floating literal, stated on the text by    *)
(* positions (1-based; an end position is the number of bytes before it),  *)
(* independently of the parser's slices.                                   *)

HexBytes == (ZERO..NINE) \cup (UPPER_A..UPPER_F) \cup (LOWER_A..LOWER_F)

DecBytes == ZERO..NINE

ByteAt(d, i) == IF i >= 1 /\ i <= Len(d) THEN d[i] ELSE None

\* The end of the longest run of bytes of S that starts after position from.
RunEnd(d, from, S) ==
    IF from >= Len(d) THEN from
    ELSE CHOOSE j \in from..Len(d) :
            /\ \A i \in (from + 1)..j : d[i] \in S
            /\ ByteAt(d, j + 1) \notin S

\* a <= b for digit strings of the same length.
LexLeq(a, b) ==
    \A i \in 1..Len(a) : (\A j \in 1..(i - 1) : a[j] = b[j]) => a[i] <= b[i]

\* The value of a decimal digit string that fits 32 signed bits.
RECURSIVE DecValue(_, _)
DecValue(ds, negative) ==
    IF Len(ds) = 0 THEN 0
    ELSE LET front == DecValue(SubSeq(ds, 1, Len(ds) - 1), negative)
         IN  IF negative THEN (front * 10) - ds[Len(ds)]
             ELSE (front * 10) + ds[Len(ds)]

\* Where the parts of a literal lie in the text d.
Layout(d) ==
    LET signEnd == IF ByteAt(d, 1) \in {PLUS, MINUS} THEN 1 ELSE 0
        hasPrefix == /\ ByteAt(d, signEnd + 1) = ZERO
                     /\ ByteAt(d, signEnd + 2) \in {LOWER_X, UPPER_X}
        prefixEnd == signEnd + 2
        intEnd == RunEnd(d, prefixEnd, HexBytes)
        hasPoint == ByteAt(d, intEnd + 1) = POINT
        fracEnd == IF hasPoint THEN RunEnd(d, intEnd + 1, HexBytes) ELSE intEnd
        intPositions == (prefixEnd + 1)..intEnd
        fracPositions == IF hasPoint THEN (intEnd + 2)..fracEnd ELSE {}
        hasMarker == ByteAt(d, fracEnd + 1) \in {LOWER_P, UPPER_P}
        hasExpSign == hasMarker /\ ByteAt(d, fracEnd + 2) \in {PLUS, MINUS}
        expSignEnd == IF hasExpSign THEN fracEnd + 2 ELSE fracEnd + 1
        expEnd == RunEnd(d, expSignEnd, DecBytes)
        expNegative == hasExpSign /\ ByteAt(d, fracEnd + 2) = MINUS
        expDigits == [i \in 1..(expEnd - expSignEnd) |-> d[expSignEnd + i] - ZERO]
        nz == {i \in 1..Len(expDigits) : expDigits[i] # 0}
        \* The exponent digits without their leading zeros.
        expSignificant ==
            IF nz = {} THEN <<>> ELSE SubSeq(expDigits, Min(nz), Len(expDigits))
        \* The signed value of the exponent text lies in -2^31 .. 2^31 - 1.
        expFits ==
            \/ Len(expSignificant) < 10
            \/ /\ Len(expSignificant) = 10
               /\ LexLeq(expSignificant,
                         IF expNegative THEN <<2, 1, 4, 7, 4, 8, 3, 6, 4, 8>>
                         ELSE <<2, 1, 4, 7, 4, 8, 3, 6, 4, 7>>)
    IN  [negative |-> ByteAt(d, 1) = MINUS,
         signEnd |-> signEnd,
         hasPrefix |-> hasPrefix,
         prefixEnd |-> prefixEnd,
         intEnd |-> intEnd,
         hasPoint |-> hasPoint,
         fracEnd |-> fracEnd,
         intPositions |-> intPositions,
         fracPositions |-> fracPositions,
         hexCount |-> Cardinality(intPositions \cup fracPositions),
         hasMarker |-> hasMarker,
         hasExpSign |-> hasExpSign,
         expSignEnd |-> expSignEnd,
         expDigitCount |-> IF hasMarker THEN expEnd - expSignEnd ELSE 0,
         expFits |-> IF hasMarker THEN expFits ELSE TRUE,
         expValue |-> IF hasMarker /\ expFits
                      THEN DecValue(expSignificant, expNegative) ELSE 0,
         literalEnd |-> IF hasMarker THEN expEnd ELSE fracEnd]

Grammar(g, d) ==
    /\ g.hasPrefix
    /\ g.hexCount >= 1
    /\ g.hasMarker => (g.expDigitCount >= 1 /\ g.expFits)
    /\ g.literalEnd = Len(d)

Parsed == pc = "parsed"

Failed == pc = "failed"

ErrorKinds ==
    {"MissingPrefix", "MissingDigits", "MissingExponent", "ExponentOverflow",
     "MissingEnd"}

----------------------------------------------------------------------------
(* C1: from_bytes is total and never panics: whatever the bytes, it        *)
(* returns Ok(FloatLiteral) or Err(ParseError) with one of the five error  *)
(* kinds; no slice index is out of range, the exponent text is valid       *)
(* UTF-8 and every retained digit converts.                                *)
C1_Total ==
    /\ pc # "panicked"
    /\ pc # "input" => lit.outcome \in {"ok", "err"}
    /\ Failed => lit.kind \in ErrorKinds

\* An input with a byte that is not UTF-8 where the exponent digits were
\* expected has been parsed, to an error.
C1_Witness ==
    LET g == Layout(data)
    IN  /\ Failed
        /\ g.hasPrefix /\ g.hasMarker
        /\ ByteAt(data, g.expSignEnd + 1) = NON_UTF8
        /\ lit.kind = "MissingExponent"

(* C2: from_bytes returns Ok exactly for the inputs of the form            *)
(* [sign] 0x|0X hex* [. hex*] [p|P [sign] dec+], with a hex digit in one   *)
(* of the two runs, an exponent that fits 32 signed bits, and no further   *)
(* byte.                                                                   *)
C2_OkIffGrammar ==
    (Parsed \/ Failed) => ((lit.outcome = "ok") <=> Grammar(Layout(data), data))

\* A literal with a point and no exponent has been accepted.
C2_Witness ==
    LET g == Layout(data)
    IN  /\ Parsed
        /\ g.hasPoint /\ ~g.hasMarker
        /\ Cardinality(g.fracPositions) >= 1

(* C3: the kind of a failure is that of the first stage that fails, in     *)
(* the order prefix, digits, exponent digits, exponent range, end.         *)
ExpectedKind(g) ==
    IF ~g.hasPrefix THEN "MissingPrefix"
    ELSE IF g.hexCount = 0 THEN "MissingDigits"
    ELSE IF g.hasMarker /\ g.expDigitCount = 0 THEN "MissingExponent"
    ELSE IF g.hasMarker /\ ~g.expFits THEN "ExponentOverflow"
    ELSE "MissingEnd"

C3_FirstFailingStage == Failed => lit.kind = ExpectedKind(Layout(data))

\* An exponent that does not fit is reported although bytes follow it.
C3_Witness ==
    /\ Failed
    /\ lit.kind = "ExponentOverflow"
    /\ Layout(data).literalEnd < Len(data)

(* C4: a MissingExponent error carries the offset at which the first       *)
(* exponent digit was expected: right after the marker, or right after     *)
(* the sign when a sign follows the marker.                                *)
C4_MissingExponentIndex ==
    (Failed /\ lit.kind = "MissingExponent") =>
        lit.index = Layout(data).expSignEnd

(* C5: the index of an error is at most the input length; it equals the    *)
(* input length when the input ended where a prefix, a hex digit or an     *)
(* exponent digit was expected, and is smaller otherwise.                  *)
EndedEarly(g) ==
    \/ /\ lit.kind = "MissingPrefix"
       /\ \/ Len(data) = g.signEnd
          \/ Len(data) = g.signEnd + 1 /\ ByteAt(data, g.signEnd + 1) = ZERO
    \/ lit.kind = "MissingDigits" /\ g.fracEnd = Len(data)
    \/ lit.kind = "MissingExponent" /\ g.expSignEnd = Len(data)

C5_IndexWithinInput ==
    LET g == Layout(data)
    IN  Failed =>
            /\ lit.index <= Len(data)
            /\ EndedEarly(g) => lit.index = Len(data)
            /\ ~EndedEarly(g) => lit.index < Len(data)

(* C6: the digits of a parsed literal are nibble values; they are empty    *)
(* exactly when every hex digit of the text is '0'; otherwise the first    *)
(* and the last are not zero; and the offset of empty digits is 0.         *)
C6_DigitsNormalized ==
    LET g == Layout(data)
    IN  Parsed =>
            /\ \A i \in 1..Len(lit.digits) : lit.digits[i] \in 0..15
            /\ (lit.digits # <<>>) <=>
                   (\E q \in g.intPositions \cup g.fracPositions : data[q] # ZERO)
            /\ lit.digits # <<>> =>
                   (lit.digits[1] # 0 /\ lit.digits[Len(lit.digits)] # 0)
            /\ lit.digits = <<>> => lit.decimal_offset = 0

\* A literal of several digits, all of them zero, on both sides of the point.
C6_Witness ==
    LET g == Layout(data)
    IN  /\ Parsed
        /\ lit.digits = <<>>
        /\ Cardinality(g.intPositions) >= 1
        /\ Cardinality(g.fracPositions) >= 1

(* C7: normalization preserves the value: the retained digits, placed by   *)
(* decimal_offset, are the digits of the text at the same powers of 16     *)
(* (and zero elsewhere), the exponent is the signed decimal value after    *)
(* the marker (0 without one), and the sign is that of the text; so a      *)
(* zero added in front of the integer part, or behind the fractional       *)
(* part, changes nothing in the parsed literal.                            *)
HexValue(b) == CHOOSE v \in 0..15 : HexChar(v) = b \/ HexCharUpper(v) = b

\* The digit of the text that multiplies 16^p.
TextDigitAt(g, p) ==
    IF p >= 0
    THEN IF (g.intEnd - p) \in g.intPositions
         THEN HexValue(data[g.intEnd - p]) ELSE 0
    ELSE IF (g.intEnd + 1 - p) \in g.fracPositions
         THEN HexValue(data[g.intEnd + 1 - p]) ELSE 0

\* The digit of the parsed literal that multiplies 16^p.
LiteralDigitAt(p) ==
    IF (lit.decimal_offset - p) \in 1..Len(lit.digits)
    THEN lit.digits[lit.decimal_offset - p] ELSE 0

\* The number of '0' digits of the text before its first other digit.
LeadingZeroDigits(g) ==
    LET ps == g.intPositions \cup g.fracPositions
    IN  Cardinality({q \in ps : \A r \in ps : r <= q => data[r] = ZERO})

InsertAt(seq, k, b) == SubSeq(seq, 1, k) \o <<b>> \o SubSeq(seq, k + 1, Len(seq))

C7_ValuePreserved ==
    LET g == Layout(data)
    IN  Parsed =>
            /\ \A p \in (-(Len(data) + 1))..(Len(data) + 1) :
                   LiteralDigitAt(p) = TextDigitAt(g, p)
            /\ lit.digits # <<>> =>
                   lit.decimal_offset =
                       Cardinality(g.intPositions) - LeadingZeroDigits(g)
            /\ lit.exponent = g.expValue
            /\ lit.is_positive <=> ~g.negative
            /\ from_bytes(InsertAt(data, g.prefixEnd, ZERO)) = lit
            /\ g.hasPoint => from_bytes(InsertAt(data, g.fracEnd, ZERO)) = lit

\* A negative literal with zeros to trim at both ends and an exponent.
C7_Witness ==
    LET g == Layout(data)
    IN  /\ Parsed
        /\ ~lit.is_positive
        /\ lit.exponent # 0
        /\ Len(lit.digits) >= 2
        /\ Cardinality(g.intPositions) >= 2 /\ data[g.prefixEnd + 1] = ZERO
        /\ Cardinality(g.fracPositions) >= 2 /\ data[g.fracEnd] = ZERO

----------------------------------------------------------------------------
(* The value of a converted literal, for the claims about convert.         *)

Converted == pc = "converted"

Format == IF fmt = "f32" THEN F32 ELSE F64

SignBit(negative) == IF negative THEN 1 ELSE 0

\* The leading zero bits of a non-zero nibble.
NibbleLeadingZeros(d) ==
    IF d >= 8 THEN 0 ELSE IF d >= 4 THEN 1 ELSE IF d >= 2 THEN 2 ELSE 3

\* The binary exponent e of the literal's value, 2^e <= |value| < 2^(e+1):
\* the power of two of the top bit of the first digit, plus the exponent.
BinaryExponent ==
    ExactAdd((lit.decimal_offset * 4) - (NibbleLeadingZeros(lit.digits[1]) + 1),
             lit.exponent)

RECURSIVE StripLeading(_)
StripLeading(bits) ==
    IF Len(bits) = 0 \/ Head(bits) = 1 THEN bits ELSE StripLeading(Tail(bits))

RECURSIVE StripTrailing(_)
StripTrailing(bits) ==
    IF Len(bits) = 0 \/ bits[Len(bits)] = 1 THEN bits
    ELSE StripTrailing(SubSeq(bits, 1, Len(bits) - 1))

\* The significant bits of the literal, from its first 1 to its last 1.
SignificantBits == StripTrailing(StripLeading(BitsOf(lit.digits)))

\* The fields of res encode the literal's value: its sign, its binary
\* exponent, and its significant bits behind the implicit leading 1.
ExactEncoding(f, negative) ==
    /\ res.sign = SignBit(negative)
    /\ res.exponent = BinaryExponent + ExponentBias(f)
    /\ StripTrailing(<<1>> \o res.mantissa) = SignificantBits

InRange(f) ==
    BinaryExponent >= MinExponent(f) /\ BinaryExponent <= MaxExponent(f)

C9_Exactness ==
    LET f == Format
        negative == Layout(data).negative
    IN  Converted =>
            /\ (/\ lit.digits # <<>>
                /\ Len(SignificantBits) <= f.M + 1
                /\ InRange(f)) =>
                   (res.tag = "Precise" /\ ExactEncoding(f, negative))
            /\ lit.digits = <<>> =>
                   res = [tag |-> "Precise", sign |-> SignBit(negative),
                          exponent |-> 0, mantissa |-> Zeros(f.M)]

(* C10: the precision tag is sound: a Precise result has the fields of     *)
(* the literal's exact value, so a literal with a significant bit that     *)
(* does not fit the mantissa, or that overflows or underflows, is          *)
(* Imprecise.                                                              *)
C10_PreciseIsExact ==
    LET f == Format
        negative == Layout(data).negative
    IN  (Converted /\ res.tag = "Precise") =>
            IF lit.digits = <<>>
            THEN res.exponent = 0 /\ res.mantissa = Zeros(f.M)
            ELSE /\ InRange(f)
                 /\ Len(SignificantBits) <= f.M + 1
                 /\ ExactEncoding(f, negative)

====
